---- MODULE Spec2Model ----
(***************************************************************************)
(* Model of src/src/volume_controller.cc: the VolumeControl accessor of    *)
(* the default audio render endpoint, its script binding                   *)
(* VolumeControlWrapper, the Translator macro trigger and the module's     *)
(* COM initialisation / teardown hooks.                                    *)
(*                                                                         *)
(* Numbers.  A script number is a double; VolumeControl::setVolume takes a *)
(* float.  Both are modelled on one integer scale on which the value 1.0   *)
(* is One: doubles are the integers, floats are the multiples of Step, and *)
(* the implicit double -> float conversion rounds to the nearest float,    *)
(* ties to even.  HRESULT and DWORD values are signed 32-bit integers.      *)
(* Text is a sequence of character codes; NUL is the code 0.               *)
(***************************************************************************)
EXTENDS Integers, Sequences, FiniteSets

\* ---------------------------------------------------------------- bounds
\* fraction bits of the modelled float
FloatBits == 1
\* additional fraction bits of the modelled double
ExtraBits == 1
\* accessors the script constructs
MaxInstances == 1

RECURSIVE Pow2(_)
Pow2(n) == IF n = 0 THEN 1 ELSE 2 * Pow2(n - 1)

\* distance between two neighbouring floats on the double scale
Step == Pow2(ExtraBits)
\* the value 1.0 on the double scale
One == Pow2(FloatBits) * Step
\* the floats an endpoint can hold as its scalar volume
Floats == {f \in 0..One : f % Step = 0}
\* the numbers the script passes to setVolume: from one float below 0.0 to
\* one float above 1.0
VolumeInputs == (0 - Step)..(One + Step)

\* ------------------------------------------------- 32-bit result codes
\* An HRESULT is a signed 32-bit integer. A DWORD (the last-error code) is
\* kept as the signed integer with the same 32 bits, which is what the cast
\* (HRESULT)(x) of HRESULT_FROM_WIN32 reads.
TwoTo16 == 65536
\* the bit 0x80000000 as a signed 32-bit integer
SignBit == -2147483647 - 1
S_OK == 0
S_FALSE == 1
\* 0x80004005
E_FAIL == -2147467259
ERROR_SUCCESS == 0
ERROR_TIMEOUT == 1460
\* a last-error value whose sign bit is set (0x80070005)
ERROR_SIGNED == -2147024891
FACILITY_WIN32 == 7

\* results an OS call hands back
HResults == {S_OK, S_FALSE, E_FAIL}
\* values GetLastError can hold after the send
LastErrors == {ERROR_SUCCESS, ERROR_TIMEOUT, ERROR_SIGNED}

\* FAILED(hr): the HRESULT is negative
FAILED(hr) == hr < 0

\* mutant: the last-error code used as the HRESULT
HRESULT_FROM_WIN32_Raw(x) == x
\* HRESULT_FROM_WIN32(x):
\*   (HRESULT)(x) <= 0 ? (HRESULT)(x)
\*                     : (HRESULT)((x & 0xFFFF) | (FACILITY_WIN32 << 16) | 0x80000000)
HRESULT_FROM_WIN32(x) ==
  IF x <= 0 THEN x
  ELSE SignBit + FACILITY_WIN32 * TwoTo16 + (x % TwoTo16)

\* ---------------------------------------------------------------- errors
NoError == [msg |-> "", code |-> 0]
MsgEnumerator == "Error when trying to get a handle to MMDeviceEnumerator device enumerator"
MsgEndpoint == "Error when trying to get a handle to the default audio enpoint"
MsgActivate == "Error when trying to get a handle to the volume endpoint"
MsgGetMute == "getting muted state"
MsgSetMute == "setting mute"
MsgGetVolume == "getting volume"
MsgSetVolume == "setting volume"
MsgRange == "Volume needs to be between 0.0 and 1.0 inclusive"
MsgNotConstruct == "The constructor cannot be called as a function."
MsgOneNumber == "Exactly one number parameter is required."
MsgOneBoolean == "Exactly one boolean parameter is required."
MsgOneString == "Exactly one string parameter is required."
MsgNotRunning == "Could not find running Translator instance to send message to"
MsgDelivery == "Failed to execute Translator Macro"

\* string_format("%s (0x%X)", message, hr): the message and the code it carries
string_format(message, hr) == [msg |-> message, code |-> hr]

\* checkErrors: throws the formatted message when the HRESULT is a failure
checkErrors(hr, error_message) ==
  IF FAILED(hr)
  THEN [threw |-> TRUE, err |-> string_format(error_message, hr)]
  ELSE [threw |-> FALSE, err |-> NoError]

\* ----------------------------------------------------------- conversions
\* mutant: the conversion rounds down
ToFloat_Truncate(d) == d - (d % Step)
\* the implicit double -> float conversion of the argument of
\* device.setVolume(volume): nearest float, ties to the even one
ToFloat(d) ==
  LET q == d \div Step
      r == d % Step
  IN  IF 2 * r < Step THEN q * Step
      ELSE IF 2 * r > Step THEN (q + 1) * Step
      ELSE IF q % 2 = 0 THEN q * Step ELSE (q + 1) * Step

\* the float -> double conversion of ReturnValue::Set(float): exact
ToDouble(f) == f

\* the bool -> BOOL conversion of device.setMuted(muted)
ToBOOL(b) == IF b THEN 1 ELSE 0

\* ----------------------------------------------------------------- text
NUL == 0
\* the macro names the script passes: "", "F", "Fo", "F\0o", "\0", "\u00E9"
Names == {<<>>, <<70>>, <<70, 111>>, <<70, NUL, 111>>, <<NUL>>, <<233>>}
\* "Macro: "
MacroPrefix == <<77, 97, 99, 114, 111, 58, 32>>

\* UTF-8 bytes of one character (code points below 0x800)
Utf8Char(c) == IF c < 128 THEN <<c>> ELSE <<192 + (c \div 64), 128 + (c % 64)>>

RECURSIVE Utf8String(_)
\* Nan::Utf8String: the UTF-8 bytes of a script string
Utf8String(s) == IF s = <<>> THEN <<>> ELSE Utf8Char(Head(s)) \o Utf8String(Tail(s))

RECURSIVE CStr(_)
\* what a const char* denotes: the bytes before the first NUL
CStr(bytes) ==
  IF bytes = <<>> \/ Head(bytes) = NUL THEN <<>>
  ELSE <<Head(bytes)>> \o CStr(Tail(bytes))

\* wstrMacroName = "Macro: "; wstrMacroName.append(*Nan::Utf8String(v8MacroName));
\* cds.lpData = c_str(), cds.cbData = strlen(c_str())
MacroPayload(name) == CStr(MacroPrefix \o CStr(Utf8String(name)))

\* ------------------------------------------------- the endpoint (OS side)
\* An endpoint is [volume, mute]: the float scalar volume and the BOOL mute
\* flag the OS keeps. A call that returns a failure HRESULT changes nothing.
Endpoints == [volume : Floats, mute : {0, 1}]

SetMasterVolumeLevelScalar(ep, f, hr) ==
  IF FAILED(hr) THEN ep ELSE [ep EXCEPT !.volume = f]

SetMute(ep, m, hr) ==
  IF FAILED(hr) THEN ep ELSE [ep EXCEPT !.mute = m]

\* GetMasterVolumeLevelScalar(&currentVolume): the out value; on failure the
\* initial value 0 of currentVolume is left in place
GetMasterVolumeLevelScalar(ep, hr) == IF FAILED(hr) THEN 0 ELSE ep.volume

\* GetMute(&muted): the out value; on failure muted keeps its initial false
GetMute(ep, hr) == IF FAILED(hr) THEN 0 ELSE ep.mute

\* ---------------------------------------------------- class VolumeControl
\* Every method yields [threw, err, calls, hrs] and what it returns or changes:
\* calls are the OS calls made, in order, hrs the results they returned.

\* mutant: only the result of the last step is checked
VolumeControl_ctor_NoCheck(hr1, hr2, hr3) ==
  LET e3 == checkErrors(hr3, MsgActivate)
  IN  [threw |-> e3.threw, err |-> e3.err,
       calls |-> <<"CoCreateInstance", "GetDefaultAudioEndpoint", "Activate">>,
       hrs |-> <<hr1, hr2, hr3>>]
\* VolumeControl::VolumeControl(): enumerator, default render endpoint,
\* activation of IAudioEndpointVolume; the first failure throws
VolumeControl_ctor(hr1, hr2, hr3) ==
  LET e1 == checkErrors(hr1, MsgEnumerator)
      e2 == checkErrors(hr2, MsgEndpoint)
      e3 == checkErrors(hr3, MsgActivate)
  IN  IF e1.threw
      THEN [threw |-> TRUE, err |-> e1.err,
            calls |-> <<"CoCreateInstance">>, hrs |-> <<hr1>>]
      ELSE IF e2.threw
      THEN [threw |-> TRUE, err |-> e2.err,
            calls |-> <<"CoCreateInstance", "GetDefaultAudioEndpoint">>,
            hrs |-> <<hr1, hr2>>]
      ELSE [threw |-> e3.threw, err |-> e3.err,
            calls |-> <<"CoCreateInstance", "GetDefaultAudioEndpoint", "Activate">>,
            hrs |-> <<hr1, hr2, hr3>>]

\* mutant: the out value of GetMute is not read; muted keeps its initial false
VolumeControl_isMuted_Unset(ep, hr) ==
  LET e == checkErrors(hr, MsgGetMute)
  IN  [threw |-> e.threw, err |-> e.err, calls |-> <<"GetMute">>, hrs |-> <<hr>>,
       value |-> 0, ep |-> ep]
\* BOOL VolumeControl::isMuted()
VolumeControl_isMuted(ep, hr) ==
  LET e == checkErrors(hr, MsgGetMute)
  IN  [threw |-> e.threw, err |-> e.err, calls |-> <<"GetMute">>, hrs |-> <<hr>>,
       value |-> IF e.threw THEN 0 ELSE GetMute(ep, hr), ep |-> ep]

\* mutant: muting also sets the volume to 0.0
VolumeControl_setMuted_ZeroVolume(ep, muted, hr) ==
  LET e == checkErrors(hr, MsgSetMute)
  IN  [threw |-> e.threw, err |-> e.err, calls |-> <<"SetMute">>, hrs |-> <<hr>>,
       value |-> 0,
       ep |-> SetMasterVolumeLevelScalar(SetMute(ep, muted, hr),
                                         IF muted # 0 THEN 0 ELSE ep.volume, hr)]
\* void VolumeControl::setMuted(BOOL muted)
VolumeControl_setMuted(ep, muted, hr) ==
  LET e == checkErrors(hr, MsgSetMute)
  IN  [threw |-> e.threw, err |-> e.err, calls |-> <<"SetMute">>, hrs |-> <<hr>>,
       value |-> 0, ep |-> SetMute(ep, muted, hr)]

\* mutant: a failed query is tried once more
VolumeControl_getVolume_Retry(ep, hr) ==
  LET e == checkErrors(hr, MsgGetVolume)
  IN  [threw |-> e.threw, err |-> e.err,
       calls |-> IF e.threw
                 THEN <<"GetMasterVolumeLevelScalar", "GetMasterVolumeLevelScalar">>
                 ELSE <<"GetMasterVolumeLevelScalar">>,
       hrs |-> <<hr>>,
       value |-> IF e.threw THEN 0 ELSE GetMasterVolumeLevelScalar(ep, hr), ep |-> ep]
\* float VolumeControl::getVolume()
VolumeControl_getVolume(ep, hr) ==
  LET e == checkErrors(hr, MsgGetVolume)
  IN  [threw |-> e.threw, err |-> e.err,
       calls |-> <<"GetMasterVolumeLevelScalar">>, hrs |-> <<hr>>,
       value |-> IF e.threw THEN 0 ELSE GetMasterVolumeLevelScalar(ep, hr), ep |-> ep]

\* void VolumeControl::setVolume(float volume)
VolumeControl_setVolume(ep, volume, hr) ==
  IF volume < 0 \/ volume > One
  THEN [threw |-> TRUE, err |-> [msg |-> MsgRange, code |-> 0],
        calls |-> <<>>, hrs |-> <<>>, value |-> 0, ep |-> ep]
  ELSE LET e == checkErrors(hr, MsgSetVolume)
       IN  [threw |-> e.threw, err |-> e.err,
            calls |-> <<"SetMasterVolumeLevelScalar">>, hrs |-> <<hr>>,
            value |-> 0, ep |-> SetMasterVolumeLevelScalar(ep, volume, hr)]

\* ------------------------------------------------------------------ state
VARIABLES
  endpoint,   \* the default render endpoint: [volume, mute], kept by the OS
  loaded,     \* InitModule has run: the VolumeControl class is exported
  comRefs,    \* successful CoInitialize calls of this module minus its CoUninitialize calls
  exited,     \* the environment has been torn down; its cleanup hooks have run
  instances,  \* accessors whose construction succeeded
  last,       \* the call that has just returned: inputs, OS calls made, outcome
  prior       \* the call before it, when it was a successful setVolume or setMuted

vars == <<endpoint, loaded, comRefs, exited, instances, last, prior>>

\* the record of a call, before the call fills it in
Blank ==
  [op |-> "none", asNew |-> FALSE, argc |-> 0, argVol |-> 0, argMuted |-> FALSE,
   argName |-> <<>>, ok |-> TRUE, err |-> NoError, resVol |-> 0, resMuted |-> 0,
   calls |-> <<>>, hrs |-> <<>>, hwnd |-> 0, payloads |-> <<>>, ret |-> 0,
   lastErr |-> 0, delivered |-> FALSE]

\* what is kept of a call once the next one has returned: a successful
\* setVolume or setMuted with its argument; of any other call, nothing
NoPrior == [op |-> "other", argVol |-> 0, argMuted |-> FALSE]
Summary(l) ==
  IF l.ok /\ l.op = "setVolume" THEN [NoPrior EXCEPT !.op = l.op, !.argVol = l.argVol]
  ELSE IF l.ok /\ l.op = "setMuted" THEN [NoPrior EXCEPT !.op = l.op, !.argMuted = l.argMuted]
  ELSE NoPrior

\* a call returns: it becomes the last call, the last one the prior one
Return(l) == last' = l /\ prior' = Summary(last)

\* script code runs: after module load, before environment teardown
Running == loaded /\ ~exited

\* The five prototype methods (Nan::SetPrototypeMethod) run only on a receiver
\* that New has constructed: each is enabled when instances > 0.

Init ==
  /\ endpoint \in Endpoints
  /\ loaded = FALSE
  /\ comRefs = 0
  /\ exited = FALSE
  /\ instances = 0
  /\ last = Blank
  /\ prior = NoPrior

\* ------------------------------------------------------- module lifecycle
\* NAN_MODULE_INIT(InitModule): CoInitialize(NULL), its result unused; the
\* class is exported; UnInitialize is registered as a cleanup hook
InitModule(hr) ==
  /\ ~loaded /\ ~exited
  /\ loaded' = TRUE
  /\ comRefs' = IF FAILED(hr) THEN comRefs ELSE comRefs + 1
  /\ Return([Blank EXCEPT !.op = "InitModule", !.calls = <<"CoInitialize">>,
                          !.hrs = <<hr>>])
  /\ UNCHANGED <<endpoint, exited, instances>>

\* environment teardown: every registered cleanup hook runs once;
\* UnInitialize calls CoUninitialize()
EnvironmentExit ==
  /\ ~exited
  /\ exited' = TRUE
  /\ comRefs' = IF loaded THEN comRefs - 1 ELSE comRefs
  /\ Return([Blank EXCEPT !.op = "exit",
                          !.calls = IF loaded THEN <<"CoUninitialize">> ELSE <<>>])
  /\ UNCHANGED <<endpoint, loaded, instances>>

\* ------------------------------------------- class VolumeControlWrapper
\* NAN_METHOD(New)
New(asNew, hr1, hr2, hr3) ==
  /\ Running /\ instances < MaxInstances
  /\ IF asNew
     THEN LET r == VolumeControl_ctor(hr1, hr2, hr3)
          IN  /\ instances' = IF r.threw THEN instances ELSE instances + 1
              /\ Return([Blank EXCEPT !.op = "new", !.asNew = TRUE, !.ok = ~r.threw,
                                      !.err = r.err, !.calls = r.calls, !.hrs = r.hrs])
     ELSE /\ instances' = instances
          /\ Return([Blank EXCEPT !.op = "new", !.ok = FALSE,
                                  !.err = [msg |-> MsgNotConstruct, code |-> 0]])
  /\ UNCHANGED <<endpoint, loaded, comRefs, exited>>

\* NAN_METHOD(GetVolume)
GetVolume(hr) ==
  /\ Running /\ instances > 0
  /\ LET r == VolumeControl_getVolume(endpoint, hr)
     IN  Return([Blank EXCEPT !.op = "getVolume", !.ok = ~r.threw, !.err = r.err,
                              !.resVol = ToDouble(r.value),
                              !.calls = r.calls])
  /\ UNCHANGED <<endpoint, loaded, comRefs, exited, instances>>

\* NAN_METHOD(SetVolume)
SetVolume(argc, volume, hr) ==
  /\ Running /\ instances > 0
  /\ IF argc # 1
     THEN /\ endpoint' = endpoint
          /\ Return([Blank EXCEPT !.op = "setVolume", !.argc = argc, !.ok = FALSE,
                                  !.err = [msg |-> MsgOneNumber, code |-> 0]])
     ELSE LET r == VolumeControl_setVolume(endpoint, ToFloat(volume), hr)
          IN  /\ endpoint' = r.ep
              /\ Return([Blank EXCEPT !.op = "setVolume", !.argc = argc,
                                      !.argVol = volume, !.ok = ~r.threw, !.err = r.err,
                                      !.calls = r.calls])
  /\ UNCHANGED <<loaded, comRefs, exited, instances>>

\* NAN_METHOD(IsMuted)
IsMuted(hr) ==
  /\ Running /\ instances > 0
  /\ LET r == VolumeControl_isMuted(endpoint, hr)
     IN  Return([Blank EXCEPT !.op = "isMuted", !.ok = ~r.threw, !.err = r.err,
                              !.resMuted = r.value,
                              !.calls = r.calls])
  /\ UNCHANGED <<endpoint, loaded, comRefs, exited, instances>>

\* NAN_METHOD(SetMuted)
SetMuted(argc, muted, hr) ==
  /\ Running /\ instances > 0
  /\ IF argc # 1
     THEN /\ endpoint' = endpoint
          /\ Return([Blank EXCEPT !.op = "setMuted", !.argc = argc, !.ok = FALSE,
                                  !.err = [msg |-> MsgOneBoolean, code |-> 0]])
     ELSE LET r == VolumeControl_setMuted(endpoint, ToBOOL(muted), hr)
          IN  /\ endpoint' = r.ep
              /\ Return([Blank EXCEPT !.op = "setMuted", !.argc = argc,
                                      !.argMuted = muted, !.ok = ~r.threw, !.err = r.err,
                                      !.calls = r.calls])
  /\ UNCHANGED <<loaded, comRefs, exited, instances>>

\* What SendMessageTimeoutA(hwnd, WM_COPYDATA, 0, &cds, SMTO_ABORTIFHUNG, 5000, 0)
\* can do: ret is its return value, lastErr what GetLastError() then holds,
\* delivered whether the payload reached the window procedure. A nonzero
\* return means the receiver processed the message; a zero return covers a
\* send that never reached the window as well as a wait that ran out while
\* the receiver was still processing the message it had received.
SendOutcomes ==
  {o \in [ret : {0, 1}, lastErr : LastErrors, delivered : BOOLEAN] :
     o.ret # 0 => o.delivered}

\* mutant: the return value of the send is not consulted
SendFailed_IgnoreRet(ret, hr) == FAILED(hr)
\* the test after the send: ret == 0 && FAILED(hr)
SendFailed(ret, hr) == ret = 0 /\ FAILED(hr)

\* NAN_METHOD(ExecTranslatorMacro). Like the other four it is installed with
\* Nan::SetPrototypeMethod, whose signature admits only receivers made by the
\* class's constructor: on anything else the call is refused ("Illegal
\* invocation") before the method body runs.
ExecTranslatorMacro(argc, hwnd, name, o) ==
  /\ Running /\ instances > 0
  /\ IF argc # 1
     THEN Return([Blank EXCEPT !.op = "execMacro", !.argc = argc, !.ok = FALSE,
                               !.err = [msg |-> MsgOneString, code |-> 0]])
     ELSE IF hwnd = 0
     THEN Return([Blank EXCEPT !.op = "execMacro", !.argc = argc, !.argName = name,
                               !.ok = FALSE,
                               !.err = [msg |-> MsgNotRunning, code |-> 0],
                               !.calls = <<"FindWindowA">>])
     ELSE LET hr == HRESULT_FROM_WIN32(o.lastErr)
              failed == SendFailed(o.ret, hr)
          IN  Return([Blank EXCEPT !.op = "execMacro", !.argc = argc, !.argName = name,
                                   !.hwnd = hwnd,
                                   !.ok = ~failed,
                                   !.err = IF failed THEN string_format(MsgDelivery, hr)
                                           ELSE NoError,
                                   !.calls = <<"FindWindowA", "SetLastError",
                                               "SendMessageTimeoutA", "GetLastError">>,
                                   !.payloads = <<MacroPayload(name)>>,
                                   !.ret = o.ret, !.lastErr = o.lastErr,
                                   !.delivered = o.delivered])
  /\ UNCHANGED <<endpoint, loaded, comRefs, exited, instances>>

\* an outcome for the calls in which nothing is sent
NoSend == [ret |-> 0, lastErr |-> ERROR_SUCCESS, delivered |-> FALSE]

\* The inputs of a call are enumerated as far as the call reads them: with a
\* wrong argument count the arguments are not read, without a window nothing
\* is sent, a volume that is refused reaches no OS call, and the constructor
\* stops calling the OS at the first failure.
Next ==
  \/ \E hr \in HResults : InitModule(hr)
  \/ EnvironmentExit
  \/ New(FALSE, S_OK, S_OK, S_OK)
  \/ \E hr1 \in HResults :
       \E hr2 \in (IF FAILED(hr1) THEN {S_OK} ELSE HResults) :
         \E hr3 \in (IF FAILED(hr1) \/ FAILED(hr2) THEN {S_OK} ELSE HResults) :
           New(TRUE, hr1, hr2, hr3)
  \/ \E hr \in HResults : GetVolume(hr)
  \/ \E argc \in {0, 2} : SetVolume(argc, 0, S_OK)
  \/ \E volume \in VolumeInputs :
       \E hr \in (IF ToFloat(volume) < 0 \/ ToFloat(volume) > One THEN {S_OK} ELSE HResults) :
         SetVolume(1, volume, hr)
  \/ \E hr \in HResults : IsMuted(hr)
  \/ \E argc \in {0, 2} : SetMuted(argc, FALSE, S_OK)
  \/ \E muted \in BOOLEAN, hr \in HResults : SetMuted(1, muted, hr)
  \/ \E argc \in {0, 2} : ExecTranslatorMacro(argc, 0, <<>>, NoSend)
  \/ \E name \in Names : ExecTranslatorMacro(1, 0, name, NoSend)
  \/ \E name \in Names, o \in SendOutcomes : ExecTranslatorMacro(1, 1, name, o)

Spec == Init /\ [][Next]_vars

\* ------------------------------------------------------------ properties
AudioOps == {"getVolume", "setVolume", "isMuted", "setMuted"}
CallerOps == AudioOps \cup {"execMacro"}
CtorCalls == <<"CoCreateInstance", "GetDefaultAudioEndpoint", "Activate">>
CtorMsgs == <<MsgEnumerator, MsgEndpoint, MsgActivate>>
SendCalls == <<"FindWindowA", "SetLastError", "SendMessageTimeoutA", "GetLastError">>
Abs(x) == IF x < 0 THEN 0 - x ELSE x

\* C1: every setVolume(v) with v < 0.0 or v > 1.0 fails with the range error
\* ("Volume needs to be between 0.0 and 1.0 inclusive") and makes no OS call,
\* so the endpoint is left as it was.
C1_OutOfRangeRejected ==
  (last.op = "setVolume" /\ last.argc = 1 /\ (last.argVol < 0 \/ last.argVol > One))
    => (~last.ok /\ last.err.msg = MsgRange /\ last.calls = <<>>)

\* C2 as claimed: setVolume(v) with 0.0 <= v <= 1.0 fails only when the OS call
\* fails, and a getVolume() that directly follows a successful setVolume(v)
\* returns v itself.
C2_ReturnsExactly ==
  /\ (last.op = "setVolume" /\ last.argc = 1 /\ last.argVol \in 0..One /\ ~last.ok)
       => (last.err.msg = MsgSetVolume /\ last.err.code < 0
           /\ last.calls = <<"SetMasterVolumeLevelScalar">>)
  /\ (prior.op = "setVolume" /\ prior.argVol \in 0..One
      /\ last.op = "getVolume" /\ last.ok)
       => last.resVol = prior.argVol

\* C2 amended: setVolume(v) with 0.0 <= v <= 1.0 fails only when the OS call
\* fails, and a getVolume() that directly follows a successful setVolume(v)
\* returns the float nearest to v (of two equally near floats the even one):
\* v itself when v is a float, such as 0.0 and 1.0, and otherwise a value
\* within half a float step of v.
C2_ReturnsNearestFloat ==
  /\ (last.op = "setVolume" /\ last.argc = 1 /\ last.argVol \in 0..One /\ ~last.ok)
       => (last.err.msg = MsgSetVolume /\ last.err.code < 0
           /\ last.calls = <<"SetMasterVolumeLevelScalar">>)
  /\ (prior.op = "setVolume" /\ prior.argVol \in 0..One
      /\ last.op = "getVolume" /\ last.ok)
       => /\ last.resVol \in Floats
          /\ 2 * Abs(last.resVol - prior.argVol) <= Step
          /\ (2 * Abs(last.resVol - prior.argVol) = Step
                => (last.resVol \div Step) % 2 = 0)
          /\ (prior.argVol \in Floats => last.resVol = prior.argVol)

\* a getVolume() after a successful setVolume(v), v not a float, returned
\* another value than v
C2_Witness ==
  /\ prior.op = "setVolume" /\ prior.argVol \in 0..One /\ prior.argVol \notin Floats
  /\ last.op = "getVolume" /\ last.ok /\ last.resVol # prior.argVol

\* C3: an isMuted() that directly follows a successful setMuted(b) returns b:
\* the BOOL 1 after setMuted(true), the BOOL 0 after setMuted(false).
C3_MuteRoundTrip ==
  (prior.op = "setMuted" /\ last.op = "isMuted" /\ last.ok)
    => /\ prior.argMuted => last.resMuted = 1
       /\ ~prior.argMuted => last.resMuted = 0

\* isMuted() after a successful setMuted(true) on an endpoint returned 1
C3_Witness ==
  /\ prior.op = "setMuted" /\ prior.argMuted
  /\ last.op = "isMuted" /\ last.ok /\ last.resMuted = 1

\* C4: mute and volume are independent: a setMuted call leaves the endpoint's
\* volume as it was, a setVolume call leaves the endpoint's mute flag as it was.
C4_MuteVolumeIndependent ==
  [][/\ last'.op = "setMuted" => endpoint'.volume = endpoint.volume
     /\ last'.op = "setVolume" => endpoint'.mute = endpoint.mute]_vars

\* the endpoint is muted by a successful setMuted(true) and keeps a volume above 0.0
C4_Witness ==
  /\ last.op = "setMuted" /\ last.ok /\ last.argMuted
  /\ endpoint.mute = 1 /\ endpoint.volume > 0

\* what C5 says of the construction that has just returned
C5_Outcome(l) ==
  LET n == Len(l.calls)
  IN  /\ n \in 1..3
      /\ l.calls = SubSeq(CtorCalls, 1, n)
      /\ Len(l.hrs) = n
      /\ \A i \in 1..(n - 1) : l.hrs[i] >= 0
      /\ l.ok <=> (n = 3 /\ l.hrs[3] >= 0)
      /\ ~l.ok => (l.hrs[n] < 0 /\ l.err = [msg |-> CtorMsgs[n], code |-> l.hrs[n]])

\* C5: construction fails, with the error of that step, as soon as one of its
\* three acquisition steps fails: the steps after it are not attempted, none is
\* attempted twice, no instance comes to exist, and the operations of the
\* accessor run only on an instance whose construction succeeded.
C5_ConstructionFailure ==
  [][/\ (last'.op = "new" /\ last'.asNew) => C5_Outcome(last')
     /\ (last'.op = "new" /\ ~last'.ok) => instances' = instances
     /\ (last'.op = "new" /\ last'.ok) => instances' = instances + 1
     /\ last'.op \in CallerOps => instances > 0]_vars

\* construction failed at the second step (no default render endpoint) after
\* two OS calls, and there is no instance
C5_Witness ==
  /\ last.op = "new" /\ last.asNew /\ ~last.ok
  /\ last.err.msg = MsgEndpoint /\ last.calls = SubSeq(CtorCalls, 1, 2)
  /\ instances = 0

\* C6: execMacro(name) without a matching window fails with the not-running
\* error and sends nothing; with a matching window it sends exactly one
\* message, whose payload is "Macro: " followed by name.
C6_PayloadIsPrefixAndName ==
  (last.op = "execMacro" /\ last.argc = 1)
    => IF last.hwnd = 0
       THEN /\ ~last.ok /\ last.err.msg = MsgNotRunning
            /\ last.payloads = <<>> /\ last.calls = <<"FindWindowA">>
       ELSE /\ last.payloads = <<MacroPrefix \o Utf8String(last.argName)>>
            /\ Cardinality({i \in DOMAIN last.calls :
                              last.calls[i] = "SendMessageTimeoutA"}) = 1

\* C7: after the send, execMacro fails with the delivery error, carrying the
\* OS error code, exactly when the send returned 0 and the last error is not
\* ERROR_SUCCESS; in every other case it reports success.
C7_DeliveryFailedIff ==
  (last.op = "execMacro" /\ last.argc = 1 /\ last.hwnd # 0)
    => LET real == last.ret = 0 /\ last.lastErr # ERROR_SUCCESS
       IN  /\ ~last.ok <=> real
           /\ real => /\ last.err.msg = MsgDelivery
                      /\ last.err.code < 0
                      /\ (last.err.code - last.lastErr) % TwoTo16 = 0
           /\ ~real => last.err = NoError

\* the send returned 0 with the last error ERROR_SUCCESS and the call succeeded
C7_Witness ==
  /\ last.op = "execMacro" /\ last.hwnd # 0
  /\ last.ret = 0 /\ last.lastErr = ERROR_SUCCESS /\ last.ok

\* C8 as claimed: whenever a call reports an error, the endpoint's volume and
\* mute are as before the call and no message has been delivered to the window.
C8_NoSideEffectOnError ==
  [][~last'.ok => (endpoint' = endpoint /\ ~last'.delivered)]_vars

\* C8 amended: whenever a call reports an error, the endpoint's volume and
\* mute and the set of instances are as before the call, and no message has
\* been delivered to the window unless the error is the delivery error of a
\* send that returned 0: that send may have reached the window.
C8_NoSideEffectUnlessSendFailed ==
  [][~last'.ok =>
       /\ endpoint' = endpoint
       /\ instances' = instances
       /\ last'.delivered => (last'.err.msg = MsgDelivery /\ last'.ret = 0)]_vars

\* execMacro reported the delivery error (timeout) for a message that reached the window
C8_Witness ==
  /\ last.op = "execMacro" /\ ~last.ok /\ last.err.msg = MsgDelivery
  /\ last.lastErr = ERROR_TIMEOUT /\ last.delivered

\* C9 as claimed: each of getVolume, setVolume, isMuted, setMuted and execMacro
\* makes at most one OS call.
C9_AtMostOneCall ==
  last.op \in CallerOps => Len(last.calls) <= 1

\* C9 amended: each of getVolume, setVolume, isMuted and setMuted makes at most
\* one OS call; execMacro makes none (wrong argument count), or the window
\* lookup alone, or the lookup and one send between a reset and a read of the
\* last-error code.
C9_CallsPerOperation ==
  /\ last.op \in AudioOps => Len(last.calls) <= 1
  /\ last.op = "execMacro" =>
       last.calls \in {<<>>, SubSeq(SendCalls, 1, 1), SendCalls}

\* execMacro found the window and made the lookup and the send
C9_Witness ==
  last.op = "execMacro" /\ last.hwnd # 0 /\ last.calls = SendCalls

\* C10: COM is initialised by the module before a construction makes an OS
\* call or an instance exists, also when CoInitialize reports failure, and the
\* teardown at environment exit undoes exactly what the module initialised.
C10_LifecycleOrdered ==
  /\ (last.op = "new" /\ last.calls # <<>>) => comRefs >= 1
  /\ (instances > 0 /\ ~exited) => comRefs >= 1
  /\ exited => comRefs = 0

====
